---- MODULE Spec2Model ----
(***************************************************************************)
(* EduSense backend (src/main.py): HTTP handlers over a document store.    *)
(*                                                                         *)
(* The handlers are coroutines that never await, so one server process    *)
(* runs each of them to completion; the store, however, is shared by       *)
(* every process that serves the app.  A handler that touches the store    *)
(* more than once (register, chat) is therefore one step per store access, *)
(* with several requests in flight, and a handler with a single store      *)
(* access is one atomic action.                                            *)
(*                                                                         *)
(* Text that the code builds or strips is a sequence of tokens (a token   *)
(* is a whitespace character or a chunk of non-blank text), so the empty  *)
(* string is <<>> and concatenation is \o.  An ASCII character is written  *)
(* as itself; a character outside ASCII is a token of its own, written as  *)
(* its Python escape (\x85, \xa0, \u2003), and a backslash of the text is  *)
(* doubled, so that no text is taken for an escape.                        *)
(***************************************************************************)
EXTENDS Integers, Sequences, FiniteSets, TLC

VARIABLES
    db,            \* the document store: collection name -> sequence of documents
    nextId,        \* the store's generator of _id / created_at values
    openai_client, \* module-level provider client, None when not configured
    workers,       \* per worker: the request it is in the middle of
    resp,          \* the last response sent, with the request it answers
    registered     \* history: every successful Register call and what it saw

vars == <<db, nextId, openai_client, workers, resp, registered>>

\* Python's None.  It is no string: a value of type Optional[str] is None or
\* Str(s), so that the string 'None' is Str("None") and differs from None.
None == [none |-> TRUE]

Str(s) == [str |-> s]

\* bool(v) of an Optional[str]: None and the empty string are false.
Truthy(v) == v # None /\ v # Str("")

\* A lookup that found no document returns None.
NoDoc == None

\* The provider's client object, OpenAI().
OpenAI == [client |-> "OpenAI"]

Procs == {"w1", "w2"}

Collections == {"user", "material", "video", "emotionlog", "chatmessage"}

(***************************************************************************)
(* Persistence adapter (database.py, not part of the sources at hand).     *)
(***************************************************************************)

\* An ObjectId is its 12 bytes.  The generator's ids differ in the last byte,
\* which counts up from wherever the counter started.
NewObjectId(n) == <<101, 0, 0, 0, 0, 0, 0, 0, 0, 0, 0, n % 256>>

\* The counter's first value; from 10 on the ids' hexadecimal form has letters.
FirstId == 10

HexDigits ==
    <<"0", "1", "2", "3", "4", "5", "6", "7", "8", "9", "a", "b", "c", "d", "e", "f">>

\* One byte as two lowercase hexadecimal digits.
hex(b) == HexDigits[(b \div 16) + 1] \o HexDigits[(b % 16) + 1]

RECURSIVE hexlify(_)
hexlify(bytes) ==
    IF bytes = <<>> THEN "" ELSE hex(Head(bytes)) \o hexlify(Tail(bytes))

\* str(ObjectId): the 24-digit lowercase hexadecimal form of the bytes.
OidStr(oid) == hexlify(oid)

\* What create_document returns: str() of the id the insert was given.
inserted_id(n) == OidStr(NewObjectId(n))

\* The document create_document stores: the fields plus the store's _id and
\* the creation stamp (documents of a collection are ordered by creation).
NewDoc(fields, n) == fields @@ [_id |-> NewObjectId(n), created_at |-> n]

\* create_document(collection, fields): one insert; the collection afterwards.
create_document(store, coll, fields, n) ==
    [store EXCEPT ![coll] = Append(@, NewDoc(fields, n))]

\* A filter {"field": value, ...} matches the documents that have those values.
Matches(doc, filter) ==
    \A k \in DOMAIN filter : k \in DOMAIN doc /\ doc[k] = filter[k]

\* collection.find(filter): the matching documents in natural order.
find(docs, filter) == SelectSeq(docs, LAMBDA d : Matches(d, filter))

\* collection.find_one(filter): the first matching document or None.
find_one(docs, filter) ==
    IF find(docs, filter) = <<>> THEN NoDoc ELSE find(docs, filter)[1]

\* get_documents(collection, filter): every matching document.
get_documents(store, coll, filter) == find(store[coll], filter)

(***************************************************************************)
(* Helpers                                                                 *)
(***************************************************************************)

\* sha256(password.encode()).hexdigest() on the passwords the model uses.
hash_password(password) ==
    CASE password = "pw1"
           -> "c592df4a86933b92addc9842402ddf198c638ea9be58916ee6e3734e1e3152f8"
      [] password = "wrong"
           -> "8810ad581e59f2bc3928b261707a71308f7e139eb04820366dc4d5c18d980225"

\* to_public(doc): _id leaves, id = str(_id) enters.
to_public(doc) ==
    IF doc = NoDoc THEN doc
    ELSE IF "_id" \in DOMAIN doc
         THEN ("id" :> OidStr(doc._id)) @@ [k \in DOMAIN doc \ {"_id"} |-> doc[k]]
         ELSE doc

HTTPException(status_code, detail) ==
    [status |-> status_code, detail |-> detail]

Ok(body) == [status |-> 200, body |-> body]

Idle == [pc |-> "idle"]

\* What the client receives; `at` stamps the store state the answer was computed in.
Respond(op, req, res, at) == [op |-> op, req |-> req, res |-> res, at |-> at]

(***************************************************************************)
(* Auth                                                                    *)
(***************************************************************************)

\* The check done on the name instead of the email.
register_exists_by_name(store, payload) ==
    find(store.user, [name |-> payload.name])

\* register, line 75: the documents with the payload's email.
register_exists(store, payload) ==
    find(store.user, [email |-> payload.email])

\* The password stored as it came.
register_fields_raw(payload) ==
    [name |-> payload.name, email |-> payload.email,
     password_hash |-> payload.password, avatar_url |-> None]

\* register, lines 78-83: the fields of the new User.
register_fields(payload) ==
    [name |-> payload.name, email |-> payload.email,
     password_hash |-> hash_password(payload.password), avatar_url |-> None]

\* register, lines 75-77: the existence check; a taken email ends the request.
RegisterCheck(w, payload) ==
    /\ workers[w] = Idle
    /\ IF register_exists(db, payload) # <<>>
       THEN /\ resp' = Respond("register", payload,
                         HTTPException(400, "Email already registered"),
                         nextId)
            /\ UNCHANGED workers
       ELSE /\ workers' = [workers EXCEPT ![w] =
                    [pc |-> "register_insert", payload |-> payload,
                     seen |-> Len(db.user)]]
            /\ UNCHANGED resp
    /\ UNCHANGED <<db, nextId, openai_client, registered>>

\* A store with a uniqueness constraint on email would reject the insert.
RegisterInsertUnique(w) ==
    /\ workers[w].pc = "register_insert"
    /\ LET payload == workers[w].payload
       IN  IF register_exists(db, payload) # <<>>
           THEN /\ resp' = Respond("register", payload,
                             HTTPException(400, "Email already registered"),
                             nextId)
                /\ UNCHANGED <<db, nextId, registered>>
           ELSE /\ db' = create_document(db, "user", register_fields(payload), nextId)
                /\ nextId' = nextId + 1
                /\ resp' = Respond("register", payload, Ok([user_id |-> inserted_id(nextId)]),
                             nextId + 1)
                /\ registered' = registered \cup
                      {[req |-> payload, user_id |-> inserted_id(nextId),
                        seen |-> workers[w].seen]}
    /\ workers' = [workers EXCEPT ![w] = Idle]
    /\ UNCHANGED openai_client

\* register, lines 78-84: the insert and the answer.
RegisterInsert(w) ==
    /\ workers[w].pc = "register_insert"
    /\ LET payload == workers[w].payload
       IN  /\ db' = create_document(db, "user", register_fields(payload), nextId)
           /\ nextId' = nextId + 1
           /\ resp' = Respond("register", payload, Ok([user_id |-> inserted_id(nextId)]),
                             nextId + 1)
           /\ registered' = registered \cup
                 {[req |-> payload, user_id |-> inserted_id(nextId),
                   seen |-> workers[w].seen]}
    /\ workers' = [workers EXCEPT ![w] = Idle]
    /\ UNCHANGED openai_client

\* A login that tells an unknown email from a wrong password.
login_leaky(store, payload) ==
    LET user == find_one(store.user, [email |-> payload.email])
    IN  IF user = NoDoc
        THEN HTTPException(401, "Unknown user")
        ELSE IF user.password_hash # hash_password(payload.password)
             THEN HTTPException(401, "Invalid credentials")
             ELSE Ok([user_id |-> OidStr(user._id), name |-> user.name,
                      email |-> user.email])

\* login, lines 88-91.
login(store, payload) ==
    LET user == find_one(store.user, [email |-> payload.email])
    IN  IF user = NoDoc \/ user.password_hash # hash_password(payload.password)
        THEN HTTPException(401, "Invalid credentials")
        ELSE Ok([user_id |-> OidStr(user._id), name |-> user.name,
                 email |-> user.email])

\* A login that stamps the User it found.
LoginStampsUser(payload) ==
    /\ resp' = Respond("login", payload, login(db, payload), nextId)
    /\ db' = [db EXCEPT !.user =
                 [i \in DOMAIN @ |->
                     IF @[i].email = payload.email
                     THEN [@[i] EXCEPT !.avatar_url = Str("seen")] ELSE @[i]]]
    /\ UNCHANGED <<nextId, openai_client, workers, registered>>

\* login, lines 87-91: the handler.
Login(payload) ==
    /\ resp' = Respond("login", payload, login(db, payload), nextId)
    /\ UNCHANGED <<db, nextId, openai_client, workers, registered>>

(***************************************************************************)
(* Materials and videos                                                    *)
(***************************************************************************)

\* The response of an endpoint that lists documents: each one made public.
Public(docs) == [i \in DOMAIN docs |-> to_public(docs[i])]

\* create_material, lines 102-108: the fields of the new Material.
create_material_fields(payload) ==
    [user_id |-> payload.user_id, title |-> payload.title,
     subject |-> payload.subject, content |-> payload.content,
     difficulty |-> "normal"]

CreateMaterial(payload) ==
    /\ db' = create_document(db, "material", create_material_fields(payload), nextId)
    /\ nextId' = nextId + 1
    /\ resp' = Respond("create_material", payload,
                       Ok([material_id |-> inserted_id(nextId)]), nextId + 1)
    /\ UNCHANGED <<openai_client, workers, registered>>

\* list_materials, lines 113-114.
list_materials(store, user_id) == Ok(Public(get_documents(store, "material", [user_id |-> user_id])))

ListMaterials(user_id) ==
    /\ resp' = Respond("list_materials", user_id, list_materials(db, user_id), nextId)
    /\ UNCHANGED <<db, nextId, openai_client, workers, registered>>

\* create_video, line 125: payload.model_dump() is stored as it is.
CreateVideo(payload) ==
    /\ db' = create_document(db, "video", payload, nextId)
    /\ nextId' = nextId + 1
    /\ resp' = Respond("create_video", payload,
                       Ok([video_id |-> inserted_id(nextId)]), nextId + 1)
    /\ UNCHANGED <<openai_client, workers, registered>>

\* list_videos, lines 130-131.
list_videos(store, user_id) == Ok(Public(get_documents(store, "video", [user_id |-> user_id])))

ListVideos(user_id) ==
    /\ resp' = Respond("list_videos", user_id, list_videos(db, user_id), nextId)
    /\ UNCHANGED <<db, nextId, openai_client, workers, registered>>

(***************************************************************************)
(* Emotion logs                                                            *)
(***************************************************************************)

\* log_emotion, lines 141-142.
LogEmotion(payload) ==
    /\ db' = create_document(db, "emotionlog", payload, nextId)
    /\ nextId' = nextId + 1
    /\ resp' = Respond("log_emotion", payload,
                       Ok([log_id |-> inserted_id(nextId)]), nextId + 1)
    /\ UNCHANGED <<openai_client, workers, registered>>

RECURSIVE SumValues(_)
\* sum(freq.values())
SumValues(f) ==
    IF DOMAIN f = {} THEN 0
    ELSE LET k == CHOOSE x \in DOMAIN f : TRUE
         IN  f[k] + SumValues([x \in DOMAIN f \ {k} |-> f[x]])

\* l.get("emotion", "neutral")
EmotionOf(l) == IF "emotion" \in DOMAIN l THEN l.emotion ELSE "neutral"

\* v / total, kept exact as numerator over denominator.
Div(v, total) == [num |-> v, den |-> total]

\* emotion_summary, lines 146-154.
emotion_summary(store, user_id) ==
    LET logs == get_documents(store, "emotionlog", [user_id |-> user_id])
        labels == {EmotionOf(logs[i]) : i \in DOMAIN logs}
        freq == [e \in labels |->
                    Cardinality({i \in DOMAIN logs : EmotionOf(logs[i]) = e})]
        total == IF SumValues(freq) # 0 THEN SumValues(freq) ELSE 1
        growth == [k \in DOMAIN freq |-> Div(freq[k], total)]
    IN  Ok([frequency |-> freq, distribution |-> growth, total |-> total])

EmotionSummary(user_id) ==
    /\ resp' = Respond("emotion_summary", user_id, emotion_summary(db, user_id), nextId)
    /\ UNCHANGED <<db, nextId, openai_client, workers, registered>>

(***************************************************************************)
(* Content adaptation                                                      *)
(***************************************************************************)

\* adapt_content, lines 165-171: the policy table.
mapping ==
    [sad |-> [strategy |-> "Make it playful", difficulty |-> "normal",
              activities |-> <<"puzzle", "flashcards">>],
     confused |-> [strategy |-> "Simplify & add examples", difficulty |-> "easy"],
     angry |-> [strategy |-> "Calm & simplify", difficulty |-> "easy"],
     happy |-> [strategy |-> "Challenge more", difficulty |-> "hard"],
     neutral |-> [strategy |-> "Keep steady", difficulty |-> "normal"]]

\* mapping.get(latest_emotion, mapping["neutral"])
adapt_rule(latest_emotion) ==
    IF latest_emotion \in DOMAIN mapping THEN mapping[latest_emotion]
    ELSE mapping["neutral"]

\* The value of a hexadecimal digit of either case, -1 for any other character.
HexValue(c) ==
    CASE c = "0" -> 0   [] c = "1" -> 1   [] c = "2" -> 2   [] c = "3" -> 3
      [] c = "4" -> 4   [] c = "5" -> 5   [] c = "6" -> 6   [] c = "7" -> 7
      [] c = "8" -> 8   [] c = "9" -> 9
      [] c \in {"a", "A"} -> 10   [] c \in {"b", "B"} -> 11
      [] c \in {"c", "C"} -> 12   [] c \in {"d", "D"} -> 13
      [] c \in {"e", "E"} -> 14   [] c \in {"f", "F"} -> 15
      [] OTHER -> -1

\* The ASCII whitespace bytes.fromhex skips between two bytes.
AsciiWhitespace == {" ", "\t", "\n", "\r", "", "\f"}

RECURSIVE fromhex_ok(_)
\* bytes.fromhex(s) does not raise: pairs of hexadecimal digits, with ASCII
\* whitespace allowed around a pair and not inside it.
fromhex_ok(s) ==
    IF s = "" THEN TRUE
    ELSE IF Head(s) \in AsciiWhitespace THEN fromhex_ok(Tail(s))
    ELSE /\ Len(s) >= 2
         /\ HexValue(Head(s)) >= 0
         /\ HexValue(Head(Tail(s))) >= 0
         /\ fromhex_ok(Tail(Tail(s)))

RECURSIVE fromhex(_)
\* bytes.fromhex(s): the bytes the pairs of digits spell.
fromhex(s) ==
    IF s = "" THEN <<>>
    ELSE IF Head(s) \in AsciiWhitespace THEN fromhex(Tail(s))
    ELSE <<16 * HexValue(Head(s)) + HexValue(Head(Tail(s)))>> \o fromhex(Tail(Tail(s)))

\* ObjectId(s) of a string: 24 characters that bytes.fromhex accepts; it raises
\* InvalidId on every other string.
ValidObjectId(s) == Len(s) = 24 /\ fromhex_ok(s)

ObjectId(s) == fromhex(s)

\* adapt_content, lines 174-179: the Material looked up, None on any failure.
adapt_material(store, payload, find_raises) ==
    IF Truthy(payload.material_id)
    THEN IF ~ValidObjectId(payload.material_id.str) \/ find_raises
         THEN NoDoc
         ELSE find_one(store.material, [_id |-> ObjectId(payload.material_id.str)])
    ELSE NoDoc

\* adapt_content, lines 188-194: the guidance prefix.
adapt_header(rule) ==
    IF rule.difficulty = "easy" THEN "Step-by-step explanation: "
    ELSE IF rule.difficulty = "hard" THEN "Advanced challenge: "
    ELSE IF "activities" \in DOMAIN rule THEN "Interactive mode: "
    ELSE "Focus mode: "

\* The prefix added whether or not a Material was found.
adapt_content_always_intro(store, payload, find_raises) ==
    LET rule == adapt_rule(payload.latest_emotion)
        material == adapt_material(store, payload, find_raises)
    IN  Ok([policy |-> rule,
            material |-> IF material # NoDoc THEN to_public(material) ELSE NoDoc,
            suggested_intro |-> adapt_header(rule)])

\* adapt_content, lines 163-197.
adapt_content(store, payload, find_raises) ==
    LET rule == adapt_rule(payload.latest_emotion)
        material == adapt_material(store, payload, find_raises)
        response == [policy |-> rule,
                     material |-> IF material # NoDoc THEN to_public(material)
                                  ELSE NoDoc]
    IN  IF material # NoDoc
        THEN Ok(response @@ [suggested_intro |-> adapt_header(rule)])
        ELSE Ok(response)

Adapt(payload, find_raises) ==
    /\ resp' = Respond("adapt", payload, adapt_content(db, payload, find_raises), nextId)
    /\ UNCHANGED <<db, nextId, openai_client, workers, registered>>

(***************************************************************************)
(* Chatbot                                                                 *)
(***************************************************************************)

\* The characters str.strip() removes when called without an argument: those
\* for which str.isspace() is true.
Whitespace ==
    { "\t", "\n", "", "\f", "\r",          \* U+0009 .. U+000D
      "", "", "", "",             \* U+001C .. U+001F
      " ",                                \* U+0020
      "\\x85", "\\xa0", "\\u1680",        \* U+0085, U+00A0, U+1680
      "\\u2000", "\\u2001", "\\u2002", "\\u2003", "\\u2004", "\\u2005",
      "\\u2006", "\\u2007", "\\u2008", "\\u2009", "\\u200a",
      "\\u2028", "\\u2029", "\\u202f", "\\u205f", "\\u3000" }

IsSpace(c) == c \in Whitespace

RECURSIVE lstrip(_)
lstrip(s) == IF s # <<>> /\ IsSpace(Head(s)) THEN lstrip(Tail(s)) ELSE s

RECURSIVE rstrip(_)
rstrip(s) ==
    IF s # <<>> /\ IsSpace(s[Len(s)]) THEN rstrip(SubSeq(s, 1, Len(s) - 1)) ELSE s

\* str.strip(): leading and trailing whitespace removed.
strip(s) == rstrip(lstrip(s))

Reverse(s) == [i \in DOMAIN s |-> s[Len(s) + 1 - i]]

RECURSIVE SortCreatedDesc(_)
\* cursor.sort("created_at", -1): newest first.
SortCreatedDesc(docs) ==
    IF docs = {} THEN <<>>
    ELSE LET newest == CHOOSE d \in docs :
                          \A e \in docs : e.created_at <= d.created_at
         IN  <<newest>> \o SortCreatedDesc(docs \ {newest})

\* cursor.limit(n)
Limit(s, n) == SubSeq(s, 1, IF Len(s) < n THEN Len(s) ELSE n)

\* get_recent_chat_history, lines 49-51: the documents, oldest first.
recent_items(store, user_id, limit) ==
    LET found == find(store.chatmessage, [user_id |-> user_id])
        cursor == Limit(SortCreatedDesc({found[i] : i \in DOMAIN found}), limit)
    IN  Reverse(cursor)

\* get_recent_chat_history, lines 53-56: role and content of one item.
HistoryEntry(it) ==
    [role |-> IF "role" \in DOMAIN it THEN it.role ELSE "user",
     content |-> IF "content" \in DOMAIN it THEN it.content ELSE <<>>]

\* The newest-first result used without reversing it.
get_recent_chat_history_newest_first(store, user_id, limit, find_raises) ==
    IF find_raises THEN <<>>
    ELSE LET items == Reverse(recent_items(store, user_id, limit))
         IN  [i \in DOMAIN items |-> HistoryEntry(items[i])]

\* get_recent_chat_history, lines 47-59.
get_recent_chat_history(store, user_id, limit, find_raises) ==
    IF find_raises THEN <<>>
    ELSE LET items == recent_items(store, user_id, limit)
         IN  [i \in DOMAIN items |-> HistoryEntry(items[i])]

\* SYSTEM_PROMPT, lines 205-211.
SYSTEM_PROMPT ==
    <<"You are EduSense, an emotion-aware learning assistant. Your goal is to teach clearly and adaptively. Tone rules by emotion: sad=gently encouraging; confused=clear step-by-step with examples; angry=calm and concise; happy=enthusiastic and challenging; neutral=friendly and helpful. Always be supportive, focus on pedagogy (Socratic questions, bite-sized steps), and avoid long tangents.">>

\* chat_with_assistant, lines 219-227.
simple_fallback(payload) ==
    LET tone_map == [k \in {Str("sad"), Str("confused"), Str("angry"),
                             Str("happy"), None} |->
                        CASE k = Str("sad") -> "gentle and encouraging"
                          [] k = Str("confused") -> "clear and step-by-step"
                          [] k = Str("angry") -> "calm and concise"
                          [] k = Str("happy") -> "enthusiastic and challenging"
                          [] k = None -> "friendly and helpful"]
        tone == IF payload.emotion_hint \in DOMAIN tone_map
                THEN tone_map[payload.emotion_hint] ELSE tone_map[None]
    IN  <<"In a ", tone, " tone: I hear you said: '">> \o payload.message
        \o <<"'. Let's work through this together.">>

\* chat_with_assistant, lines 238-240.
system_prefix(payload) ==
    IF Truthy(payload.emotion_hint)
    THEN SYSTEM_PROMPT \o <<" Current learner emotional state: ",
                            payload.emotion_hint.str, ". Adjust tone accordingly.">>
    ELSE SYSTEM_PROMPT

\* chat_with_assistant, line 236: limit=8.
HistoryLimit == 8

\* chat_with_assistant, lines 236-244: what is sent to the provider.
chat_messages(store, payload, find_raises) ==
    <<[role |-> "system", content |-> system_prefix(payload)]>>
    \o get_recent_chat_history(store, payload.user_id, HistoryLimit, find_raises)
    \o <<[role |-> "user", content |-> payload.message]>>

\* What the provider call can come to: an exception (timeout, error answer),
\* a completion without choices, one whose content is None, or a text.
ProviderFailed(outcome) == outcome.kind \in {"raise", "no_choices", "content_none"}

\* chat_with_assistant, lines 229-255: the reply.
chat_reply(payload, client, outcome) ==
    IF client = None THEN simple_fallback(payload)
    ELSE IF ProviderFailed(outcome) THEN simple_fallback(payload)
    ELSE strip(outcome.content)

ChatDoc(payload, role, content) ==
    [user_id |-> payload.user_id, role |-> role, content |-> content,
     emotion_context |-> payload.emotion_hint]

\* chat_with_assistant, line 216: the user's message is stored first.
ChatStoreUser(w, payload) ==
    /\ workers[w] = Idle
    /\ db' = create_document(db, "chatmessage",
                             ChatDoc(payload, "user", payload.message), nextId)
    /\ nextId' = nextId + 1
    /\ workers' = [workers EXCEPT ![w] =
          [pc |-> "chat_generate", payload |-> payload, writes |-> <<nextId>>]]
    /\ UNCHANGED <<openai_client, resp, registered>>

\* chat_with_assistant, lines 229-255: history, provider call, reply.
ChatGenerate(w, outcome, find_raises) ==
    /\ workers[w].pc = "chat_generate"
    /\ openai_client = None => (outcome.kind = "not_called" /\ ~find_raises)
    /\ openai_client # None => outcome.kind # "not_called"
    /\ LET payload == workers[w].payload
       IN  workers' = [workers EXCEPT ![w] =
              [pc |-> "chat_store_reply", payload |-> payload,
               writes |-> workers[w].writes,
               messages |-> IF openai_client = None THEN <<>>
                            ELSE chat_messages(db, payload, find_raises),
               outcome |-> outcome,
               reply |-> chat_reply(payload, openai_client, outcome)]]
    /\ UNCHANGED <<db, nextId, openai_client, resp, registered>>

\* The reply stored only when it came from the provider.
ChatStoreReplyUnlessFallback(w) ==
    /\ workers[w].pc = "chat_store_reply"
    /\ LET payload == workers[w].payload
           reply == workers[w].reply
           stored == workers[w].outcome.kind = "text"
       IN  /\ db' = IF stored
                    THEN create_document(db, "chatmessage",
                                         ChatDoc(payload, "assistant", reply), nextId)
                    ELSE db
           /\ nextId' = IF stored THEN nextId + 1 ELSE nextId
           /\ resp' = Respond("chat", payload, Ok([reply |-> reply]), nextId')
                      @@ [writes |-> IF stored THEN Append(workers[w].writes, nextId)
                                     ELSE workers[w].writes,
                          outcome |-> workers[w].outcome]
    /\ workers' = [workers EXCEPT ![w] = Idle]
    /\ UNCHANGED <<openai_client, registered>>

\* chat_with_assistant, lines 258-259: the reply is stored and returned.
ChatStoreReply(w) ==
    /\ workers[w].pc = "chat_store_reply"
    /\ LET payload == workers[w].payload
           reply == workers[w].reply
       IN  /\ db' = create_document(db, "chatmessage",
                                    ChatDoc(payload, "assistant", reply), nextId)
           /\ nextId' = nextId + 1
           /\ resp' = Respond("chat", payload, Ok([reply |-> reply]), nextId + 1)
                      @@ [writes |-> Append(workers[w].writes, nextId),
                          outcome |-> workers[w].outcome]
    /\ workers' = [workers EXCEPT ![w] = Idle]
    /\ UNCHANGED <<openai_client, registered>>

(***************************************************************************)
(* Specifications                                                          *)
(***************************************************************************)

EmptyStore == [c \in Collections |-> <<>>]

Init ==
    /\ db = EmptyStore
    /\ nextId = FirstId
    /\ openai_client \in {None, OpenAI}
    /\ workers = [w \in Procs |-> Idle]
    /\ resp = [op |-> "none"]
    /\ registered = {}

\* Requests that passed their first store access and have inserts to come.
Pending(pcs) == Cardinality({w \in Procs : workers[w].pc \in pcs})

\* -------- the auth endpoints --------

MaxUsers == 2

Names == {"Ana", "Bob"}
Emails == {"ana@x.com", "bob@x.com"}
Passwords == {"pw1", "wrong"}

RegisterRequests == [name : Names, email : Emails, password : Passwords]
LoginRequests == [email : Emails, password : Passwords]

AuthRegisterCheck ==
    /\ Len(db.user) + Pending({"register_insert"}) < MaxUsers
    /\ \E w \in Procs, payload \in RegisterRequests : RegisterCheck(w, payload)

AuthRegisterRejected ==
    /\ Len(db.user) + Pending({"register_insert"}) >= MaxUsers
    /\ \E w \in Procs, payload \in RegisterRequests :
          /\ register_exists(db, payload) # <<>>
          /\ RegisterCheck(w, payload)

AuthRegisterInsert == \E w \in Procs : RegisterInsert(w)

AuthLogin == \E payload \in LoginRequests : Login(payload)

NextAuth ==
    \/ AuthRegisterCheck
    \/ AuthRegisterRejected
    \/ AuthRegisterInsert
    \/ AuthLogin

SpecAuth == Init /\ [][NextAuth]_vars

\* -------- materials, videos and adaptation --------

MaxContent == 2

UserIds == {"u1", "u2"}

MaterialRequests ==
    [user_id : UserIds, title : {"Algebra"}, subject : {None, Str("math")},
     content : {"x + 1 = 2"}]

VideoRequests ==
    [user_id : UserIds, title : {"Intro"}, subject : {None}, url : {"http://v/1"}]

\* The first generated id with its letters in capitals.
FirstIdUpper == "65000000000000000000000A"

\* No id, ids ObjectId() rejects, ids it accepts that name nothing (one of
\* them 24 characters with whitespace), and the ids the store can hold.
MaterialIds ==
    {None, Str(""), Str("not-an-object-id"), Str("65000000000000000000000g"),
     Str("65000000000000000000 0a "), Str(FirstIdUpper)}
    \cup {Str(inserted_id(n)) : n \in FirstId..(FirstId + MaxContent)}

LatestEmotions == {"sad", "confused", "happy", "neutral", "bored"}

AdaptRequests ==
    [user_id : {"u1"}, material_id : MaterialIds, latest_emotion : LatestEmotions]

ContentCreateMaterial ==
    /\ Len(db.material) + Len(db.video) < MaxContent
    /\ \E payload \in MaterialRequests : CreateMaterial(payload)

ContentCreateVideo ==
    /\ Len(db.material) + Len(db.video) < MaxContent
    /\ \E payload \in VideoRequests : CreateVideo(payload)

ContentListMaterials == \E user_id \in UserIds : ListMaterials(user_id)

ContentListVideos == \E user_id \in UserIds : ListVideos(user_id)

\* The lookup can fail only where it is made: after ObjectId() took the id.
ContentAdapt ==
    \E payload \in AdaptRequests, find_raises \in BOOLEAN :
        /\ find_raises => /\ Truthy(payload.material_id)
                          /\ ValidObjectId(payload.material_id.str)
        /\ Adapt(payload, find_raises)

NextContent ==
    \/ ContentCreateMaterial
    \/ ContentCreateVideo
    \/ ContentListMaterials
    \/ ContentListVideos
    \/ ContentAdapt

SpecContent == Init /\ [][NextContent]_vars

\* -------- emotion logs --------

MaxLogs == 4

EmotionRequests ==
    [user_id : UserIds, emotion : {"happy", "sad", "bored"}, note : {None}]

EmotionLog ==
    /\ Len(db.emotionlog) < MaxLogs
    /\ \E payload \in EmotionRequests : LogEmotion(payload)

EmotionGetSummary == \E user_id \in UserIds : EmotionSummary(user_id)

NextEmotion ==
    \/ EmotionLog
    \/ EmotionGetSummary

SpecEmotion == Init /\ [][NextEmotion]_vars

\* -------- chat: every kind of request and provider outcome --------

MaxChats == 2

ChatRequests ==
    {[user_id |-> "u1", message |-> <<"hello">>, emotion_hint |-> None],
     [user_id |-> "u1", message |-> <<>>, emotion_hint |-> Str("sad")],
     [user_id |-> "u2", message |-> <<"hello">>, emotion_hint |-> Str("None")],
     [user_id |-> "u2", message |-> <<"help", " ", "me">>, emotion_hint |-> Str("")]}

Completions == {<<>>, <<"\r", "\n">>, <<" ", "Sure.", "\r", "\n">>}

NotCalled == [kind |-> "not_called"]

Outcomes ==
    {NotCalled, [kind |-> "raise"], [kind |-> "no_choices"],
     [kind |-> "content_none"]}
    \cup {[kind |-> "text", content |-> c] : c \in Completions}

ChatStart ==
    /\ Len(db.chatmessage) + Pending({"chat_generate", "chat_store_reply"}) + 2
           <= 2 * MaxChats
    /\ \E w \in Procs, payload \in ChatRequests : ChatStoreUser(w, payload)

ChatProvider ==
    \E w \in Procs, outcome \in Outcomes : ChatGenerate(w, outcome, FALSE)

ChatFinish == \E w \in Procs : ChatStoreReply(w)

NextChat ==
    \/ ChatStart
    \/ ChatProvider
    \/ ChatFinish

SpecChat == Init /\ [][NextChat]_vars

\* -------- chat: long histories --------

MaxHistoryChats == 6

HistoryRequests ==
    {[user_id |-> "u1", message |-> <<"hello">>, emotion_hint |-> None],
     [user_id |-> "u2", message |-> <<"help">>, emotion_hint |-> None]}

HistoryOutcomes == {[kind |-> "text", content |-> <<"Sure.">>]}

\* Chats of the second user, whose messages must stay out of the first's window.
MaxOtherChats == 1

ChatsOf(user_id) ==
    Len(find(db.chatmessage, [user_id |-> user_id, role |-> "user"]))

HistoryStart ==
    /\ Len(db.chatmessage) + Pending({"chat_generate", "chat_store_reply"}) + 2
           <= 2 * MaxHistoryChats
    /\ \E w \in Procs, payload \in HistoryRequests :
          /\ payload.user_id = "u2" => ChatsOf("u2") < MaxOtherChats
          /\ ChatStoreUser(w, payload)

HistoryProvider ==
    \E w \in Procs, outcome \in HistoryOutcomes, find_raises \in BOOLEAN :
        ChatGenerate(w, outcome, find_raises)

HistoryFinish == \E w \in Procs : ChatStoreReply(w)

NextHistory ==
    \/ HistoryStart
    \/ HistoryProvider
    \/ HistoryFinish

\* The service started with the provider's key in its environment.
InitConfigured == Init /\ openai_client # None

SpecHistory == InitConfigured /\ [][NextHistory]_vars

\* -------- the whole service --------

MaxDocs == 4

AllRegister == [name : {"Ana"}, email : {"ana@x.com"}, password : {"pw1"}]
AllLogin == [email : {"ana@x.com"}, password : {"pw1", "wrong"}]
AllMaterial ==
    [user_id : {"u1"}, title : {"Algebra"}, subject : {None}, content : {"x + 1 = 2"}]
AllVideo == [user_id : {"u1"}, title : {"Intro"}, subject : {None}, url : {"http://v/1"}]
AllEmotion == [user_id : {"u1"}, emotion : {"happy"}, note : {None}]
AllAdapt ==
    [user_id : {"u1"}, material_id : {None, Str(inserted_id(FirstId)),
                                      Str(inserted_id(FirstId + 1))},
     latest_emotion : {"sad"}]
AllChat == [user_id : {"u1"}, message : {<<"hello">>}, emotion_hint : {Str("sad")}]
AllOutcomes == {NotCalled, [kind |-> "raise"], [kind |-> "text", content |-> <<"Sure.">>]}

\* Documents stored plus the inserts that requests in flight still owe.
Owed ==
    (nextId - FirstId) + Pending({"register_insert", "chat_store_reply", "chat_generate"})

AllRegisterCheck ==
    /\ \E w \in Procs, payload \in AllRegister :
          /\ Owed < MaxDocs \/ register_exists(db, payload) # <<>>
          /\ RegisterCheck(w, payload)

AllRegisterInsert == \E w \in Procs : RegisterInsert(w)

AllLoginStep == \E payload \in AllLogin : Login(payload)

AllCreateMaterial ==
    /\ Owed < MaxDocs
    /\ \E payload \in AllMaterial : CreateMaterial(payload)

AllListMaterials == ListMaterials("u1")

AllCreateVideo ==
    /\ Owed < MaxDocs
    /\ \E payload \in AllVideo : CreateVideo(payload)

AllListVideos == ListVideos("u1")

AllLogEmotion ==
    /\ Owed < MaxDocs
    /\ \E payload \in AllEmotion : LogEmotion(payload)

AllEmotionSummary == EmotionSummary("u1")

AllAdaptStep == \E payload \in AllAdapt : Adapt(payload, FALSE)

AllChatStart ==
    /\ Owed + 2 <= MaxDocs
    /\ \E w \in Procs, payload \in AllChat : ChatStoreUser(w, payload)

AllChatProvider ==
    \E w \in Procs, outcome \in AllOutcomes : ChatGenerate(w, outcome, FALSE)

AllChatFinish == \E w \in Procs : ChatStoreReply(w)

NextAll ==
    \/ AllRegisterCheck
    \/ AllRegisterInsert
    \/ AllLoginStep
    \/ AllCreateMaterial
    \/ AllListMaterials
    \/ AllCreateVideo
    \/ AllListVideos
    \/ AllLogEmotion
    \/ AllEmotionSummary
    \/ AllAdaptStep
    \/ AllChatStart
    \/ AllChatProvider
    \/ AllChatFinish

Spec == Init /\ [][NextAll]_vars

(***************************************************************************)
(* Properties of the auth endpoints                                        *)
(***************************************************************************)

\* Position in the user collection of the document with this id.
UserPos(user_id) ==
    CHOOSE i \in DOMAIN db.user : OidStr(db.user[i]._id) = user_id

SameCredentials(r) ==
    /\ r.req.email = resp.req.email
    /\ r.req.password = resp.req.password

\* No User with r's email was inserted between r's existence check and r's
\* own insert.
NotRaced(r) ==
    \A k \in (r.seen + 1)..(UserPos(r.user_id) - 1) :
        db.user[k].email # r.req.email

\* C1 as stated: a Login that follows a successful Register with the same
\* email and password succeeds and returns that Register's user_id with the
\* registered name and email.
C1_LoginReturnsRegisteredId ==
    resp.op = "login" =>
        \A r \in registered :
            SameCredentials(r) =>
                resp.res = Ok([user_id |-> r.user_id, name |-> r.req.name,
                               email |-> r.req.email])

\* C1 amended: the same, for a Register during which no other Register
\* inserted a User with the same email between its existence check and its
\* insert.
C1_LoginReturnsRegisteredIdUnlessRaced ==
    resp.op = "login" =>
        \A r \in registered :
            (SameCredentials(r) /\ NotRaced(r)) =>
                resp.res = Ok([user_id |-> r.user_id, name |-> r.req.name,
                               email |-> r.req.email])

C1_Witness ==
    /\ resp.op = "login"
    /\ resp.res.status = 200
    /\ \E r \in registered :
          /\ SameCredentials(r)
          /\ NotRaced(r)
          /\ resp.res.body.user_id = r.user_id
          /\ UserPos(r.user_id) > 1

EmailTaken(email) == \E i \in DOMAIN db.user : db.user[i].email = email

\* C2: a Register whose email already belongs to a stored User answers 400
\* "Email already registered" whatever its name and password, and the store
\* stays as it was.
C2_TakenEmailRejected ==
    [][\A w \in Procs, payload \in RegisterRequests :
          (RegisterCheck(w, payload) /\ EmailTaken(payload.email)) =>
              /\ resp' = Respond("register", payload,
                           HTTPException(400, "Email already registered"), nextId)
              /\ db' = db
              /\ workers'[w] = Idle]_vars

C2_Witness ==
    /\ resp.op = "register"
    /\ resp.res.status = 400
    /\ resp.at = nextId
    /\ \E i \in DOMAIN db.user :
          /\ db.user[i].email = resp.req.email
          /\ db.user[i].name # resp.req.name
          /\ db.user[i].password_hash # hash_password(resp.req.password)

\* The User an email resolves to: the first stored one with that email.
FirstWithEmail(email) ==
    db.user[CHOOSE i \in DOMAIN db.user :
               /\ db.user[i].email = email
               /\ \A j \in 1..(i - 1) : db.user[j].email # email]

WrongPassword(payload) ==
    /\ EmailTaken(payload.email)
    /\ FirstWithEmail(payload.email).password_hash # hash_password(payload.password)

\* C3: a Login with an email no User has and a Login with a registered email
\* and a password whose hash differs from the stored one get the same answer,
\* 401 "Invalid credentials", and neither changes the store.
C3_LoginFailuresAlike ==
    [][\A payload \in LoginRequests :
          (Login(payload) /\ (~EmailTaken(payload.email) \/ WrongPassword(payload))) =>
              /\ resp'.res = HTTPException(401, "Invalid credentials")
              /\ db' = db]_vars

C3_Witness ==
    /\ resp.op = "login"
    /\ resp.res = HTTPException(401, "Invalid credentials")
    /\ resp.at = nextId
    /\ WrongPassword(resp.req)

\* A Register that passed its existence check always inserts and answers 200.
C8_CheckedRegisterSucceeds ==
    \A w \in Procs :
        (workers[w].pc = "register_insert" /\ workers'[w] # workers[w]) =>
            /\ resp'.op = "register"
            /\ resp'.req = workers[w].payload
            /\ resp'.res.status = 200
            /\ Len(db'.user) = Len(db.user) + 1
            /\ db'.user[Len(db'.user)].email = workers[w].payload.email
            /\ OidStr(db'.user[Len(db'.user)]._id) = resp'.res.body.user_id

\* Every User document comes from a successful Register.
Inserter(i) == CHOOSE r \in registered : r.user_id = OidStr(db.user[i]._id)

\* Two Users share an email only if the later one's Register ran its check
\* before the earlier one was inserted.
C8_DuplicatesOnlyByRace ==
    \A i, j \in DOMAIN db.user :
        (i < j /\ db.user[i].email = db.user[j].email) => Inserter(j).seen < i

\* When no insert ever came between a Register's check and its own insert,
\* emails are unique.
C8_UniqueWithoutInterleaving ==
    (\A r \in registered : UserPos(r.user_id) = r.seen + 1) =>
        \A i, j \in DOMAIN db.user :
            db.user[i].email = db.user[j].email => i = j

\* C8: email uniqueness is best-effort.  Registers that have all passed the
\* existence check all succeed, so two of them with one email leave two Users
\* with that email; without interleaving between check and insert no two
\* Users share an email.
C8_BestEffortUniqueness ==
    /\ [][C8_CheckedRegisterSucceeds]_vars
    /\ [](C8_DuplicatesOnlyByRace /\ C8_UniqueWithoutInterleaving)

\* Both checks ran before either insert, both Registers succeeded, and the
\* store holds two Users with the one email.
C8_Witness ==
    \E r1, r2 \in registered :
        /\ r1.user_id # r2.user_id
        /\ r1.req.email = r2.req.email
        /\ r1.seen < UserPos(r2.user_id)
        /\ r2.seen < UserPos(r1.user_id)
        /\ db.user[UserPos(r1.user_id)].email = db.user[UserPos(r2.user_id)].email

(***************************************************************************)
(* Properties of the chat endpoint                                         *)
(***************************************************************************)

IsPrefix(a, b) == Len(a) <= Len(b) /\ SubSeq(b, 1, Len(a)) = a

LastDoc(docs) == docs[Len(docs)]

\* What one step of a Chat call does to the store.
C4_ChatStep ==
    \A w \in Procs :
        workers'[w] # workers[w] =>
            /\ workers'[w].pc = "chat_generate" =>
                  /\ db' = [db EXCEPT !.chatmessage = Append(@, LastDoc(db'.chatmessage))]
                  /\ LastDoc(db'.chatmessage).user_id = workers'[w].payload.user_id
                  /\ LastDoc(db'.chatmessage).role = "user"
                  /\ LastDoc(db'.chatmessage).content = workers'[w].payload.message
            /\ workers[w].pc = "chat_generate" =>
                  /\ workers'[w].pc = "chat_store_reply"
                  /\ db' = db
            /\ workers[w].pc = "chat_store_reply" =>
                  /\ workers'[w] = Idle
                  /\ resp'.op = "chat" /\ resp'.req = workers[w].payload
                  /\ db' = [db EXCEPT !.chatmessage = Append(@, LastDoc(db'.chatmessage))]
                  /\ LastDoc(db'.chatmessage).user_id = workers[w].payload.user_id
                  /\ LastDoc(db'.chatmessage).role = "assistant"
                  /\ LastDoc(db'.chatmessage).content = resp'.res.body.reply

\* The documents a finished Chat call wrote.
C4_ChatWrites ==
    resp.op = "chat" =>
        /\ Len(resp.writes) = 2
        /\ \E i, j \in DOMAIN db.chatmessage :
              /\ i < j
              /\ db.chatmessage[i] =
                    NewDoc(ChatDoc(resp.req, "user", resp.req.message), resp.writes[1])
              /\ db.chatmessage[j] =
                    NewDoc(ChatDoc(resp.req, "assistant", resp.res.body.reply),
                           resp.writes[2])

\* C4: every Chat call stores exactly two ChatMessages, both for its user_id:
\* first the user's message, then the assistant's reply that it returns,
\* whether the provider is absent, answers or fails.
C4_ChatStoresUserThenAssistant ==
    /\ [][C4_ChatStep]_vars
    /\ []C4_ChatWrites

\* A call whose provider failed, with another user's call stored in between.
C4_Witness ==
    /\ resp.op = "chat"
    /\ resp.outcome.kind = "raise"
    /\ Len(resp.writes) = 2
    /\ \E k \in DOMAIN db.chatmessage :
          /\ db.chatmessage[k].created_at > resp.writes[1]
          /\ db.chatmessage[k].created_at < resp.writes[2]
          /\ db.chatmessage[k].user_id # resp.req.user_id

\* C5: Chat answers 200 with a non-empty reply for every provider outcome, and
\* with the fallback template when the provider is absent or fails.
C5_ReplyNeverEmpty ==
    resp.op = "chat" =>
        /\ resp.res.status = 200
        /\ resp.res.body.reply # <<>>
        /\ resp.outcome.kind \in {"not_called", "raise", "no_choices", "content_none"}
              => resp.res.body.reply = simple_fallback(resp.req)

\* The window of the user's stored messages: those with fewer than `limit`
\* newer ones of the same user, each placed after the ones older than it.
MessagesOf(user_id) ==
    {d \in {db.chatmessage[i] : i \in DOMAIN db.chatmessage} : d.user_id = user_id}

Newer(d, user_id) == {e \in MessagesOf(user_id) : e.created_at > d.created_at}

Window(user_id, limit) ==
    {d \in MessagesOf(user_id) : Cardinality(Newer(d, user_id)) < limit}

IsWindow(history, user_id, limit) ==
    /\ Len(history) = Cardinality(Window(user_id, limit))
    /\ \A d \in Window(user_id, limit) :
          LET k == Cardinality(Window(user_id, limit)) - Cardinality(Newer(d, user_id))
          IN  history[k] = [role |-> d.role, content |-> d.content]

\* C9: with a provider configured, what Chat sends is the system instruction,
\* then at most 8 entries that are the requesting user's most recently created
\* messages, oldest first, then the new user message; no other user's message
\* is among them, and a failed retrieval leaves the history empty.
C9_HistoryWindow ==
    [][\A w \in Procs, outcome \in HistoryOutcomes, find_raises \in BOOLEAN :
          (ChatGenerate(w, outcome, find_raises) /\ openai_client # None) =>
              LET payload == workers[w].payload
                  messages == workers'[w].messages
                  history == SubSeq(messages, 2, Len(messages) - 1)
              IN  /\ Len(messages) >= 2
                  /\ messages[1].role = "system"
                  /\ messages[Len(messages)] =
                        [role |-> "user", content |-> payload.message]
                  /\ Len(history) <= 8
                  /\ IF find_raises THEN history = <<>>
                     ELSE IsWindow(history, payload.user_id, 8)]_vars

\* A request whose user had more than 8 messages, with the other user's
\* messages stored among them, got exactly 8 of its own.
C9_Witness ==
    \E w \in Procs :
        /\ workers[w].pc = "chat_store_reply"
        /\ openai_client # None
        /\ Len(workers[w].messages) = 10
        /\ LET mine == {d \in MessagesOf(workers[w].payload.user_id) :
                           d.created_at <= workers[w].writes[1]}
               others == {db.chatmessage[i] : i \in DOMAIN db.chatmessage} \
                         MessagesOf(workers[w].payload.user_id)
           IN  /\ Cardinality(mine) > 8
               /\ \E d \in others, e \in mine :
                     /\ e.created_at < d.created_at
                     /\ d.created_at < workers[w].writes[1]
                     /\ Cardinality(Newer(e, workers[w].payload.user_id)) < 8

(***************************************************************************)
(* Properties of the emotion summary and of adaptation                     *)
(***************************************************************************)

LogsOf(user_id) ==
    {i \in DOMAIN db.emotionlog : db.emotionlog[i].user_id = user_id}

\* C6: the frequencies EmotionSummary returns add up to the total it returns,
\* each is the number of the user's logs with that label, and the
\* distribution adds up to 1 when total > 0 -- also for a user with no log.
C6_SummaryAddsUp ==
    (resp.op = "emotion_summary" /\ resp.at = nextId) =>
        LET body == resp.res.body
            count(e) == Cardinality({i \in LogsOf(resp.req) : db.emotionlog[i].emotion = e})
        IN  /\ SumValues(body.frequency) = body.total
            /\ \A i \in LogsOf(resp.req) : db.emotionlog[i].emotion \in DOMAIN body.frequency
            /\ \A e \in DOMAIN body.frequency : body.frequency[e] = count(e)
            /\ body.total > 0 =>
                  /\ \A e \in DOMAIN body.distribution :
                        body.distribution[e].den = body.total
                  /\ SumValues([e \in DOMAIN body.distribution |->
                                   body.distribution[e].num]) = body.total

\* One character in lower case, as far as ids go.
LowerChar(c) ==
    CASE c = "A" -> "a" [] c = "B" -> "b" [] c = "C" -> "c"
      [] c = "D" -> "d" [] c = "E" -> "e" [] c = "F" -> "f"
      [] OTHER -> c

RECURSIVE Lower(_)
Lower(s) == IF s = "" THEN "" ELSE LowerChar(Head(s)) \o Lower(Tail(s))

\* The material_id names a stored Material: it is that Material's id, in
\* either case of the hexadecimal letters.
Resolves(material_id) ==
    /\ material_id # None
    /\ \E i \in DOMAIN db.material :
          OidStr(db.material[i]._id) = Lower(material_id.str)

\* C7: Adapt always answers 200; a material_id that resolves to no stored
\* Material gives material null and no suggested_intro key; suggested_intro is
\* there exactly when a Material was found.
C7_UnresolvedMaterialIsNull ==
    (resp.op = "adapt" /\ resp.at = nextId) =>
        LET body == resp.res.body
        IN  /\ resp.res.status = 200
            /\ ~Resolves(resp.req.material_id) =>
                  /\ body.material = NoDoc
                  /\ "suggested_intro" \notin DOMAIN body
            /\ body.material # NoDoc =>
                  /\ Resolves(resp.req.material_id)
                  /\ body.material.id = Lower(resp.req.material_id.str)
            /\ "suggested_intro" \in DOMAIN body <=> body.material # NoDoc

\* The id is well-formed and names a stored Video, not a Material.
C7_Witness ==
    /\ resp.op = "adapt"
    /\ resp.at = nextId
    /\ db.material # <<>>
    /\ resp.req.material_id # None
    /\ \E i \in DOMAIN db.video : OidStr(db.video[i]._id) = resp.req.material_id.str
    /\ resp.res.body.material = NoDoc
    /\ "suggested_intro" \notin DOMAIN resp.res.body

(***************************************************************************)
(* The store only grows                                                    *)
(***************************************************************************)

ReadOnlyOps ==
    {"login", "list_materials", "list_videos", "emotion_summary", "adapt"}

ReadOnlyStep ==
    \/ \E payload \in AllLogin : Login(payload)
    \/ ListMaterials("u1")
    \/ ListVideos("u1")
    \/ EmotionSummary("u1")
    \/ \E payload \in AllAdapt : Adapt(payload, FALSE)
    \/ \E w \in Procs, payload \in AllRegister :
          RegisterCheck(w, payload) /\ register_exists(db, payload) # <<>>
    \/ resp' # resp /\ resp'.op \in ReadOnlyOps
    \/ resp' # resp /\ resp'.op = "register" /\ resp'.res.status = 400

\* C10: no step removes or changes a stored document, a step inserts at most
\* one, and Login, the list endpoints, EmotionSummary, Adapt and a rejected
\* Register leave every collection as it was.
C10_InsertOnly ==
    [][/\ \A c \in Collections :
             /\ IsPrefix(db[c], db'[c])
             /\ Len(db'[c]) <= Len(db[c]) + 1
       /\ ReadOnlyStep => db' = db]_vars

C10_Witness ==
    /\ resp.op = "register"
    /\ resp.res.status = 400
    /\ resp.at = nextId
    /\ db.user # <<>>
    /\ db.material # <<>>
    /\ Len(db.chatmessage) = 2

====
